---- MODULE Spec2Model ----
(***************************************************************************)
(* The hash-linked herb ledger of main.py: HerbBlock, HerbBlockchain and   *)
(* the Flask handlers that drive the module-level chain herb_blockchain.   *)
(*                                                                         *)
(* Text.  A Python str is a sequence of tokens.  A token is either one     *)
(* literal character, or a run of hex digits from..to of the SHA-256       *)
(* digest of a text `pre`.  SHA-256 is idealised as collision free: two    *)
(* digests are the same text exactly when their preimages are the same     *)
(* text.  Everything else (decimal formatting, isoformat, json.dumps, the  *)
(* f-string concatenation, slicing) is computed character by character.    *)
(***************************************************************************)
EXTENDS Integers, Sequences, FiniteSets, TLC

VARIABLES
    chain,      \* herb_blockchain.chain: the list of HerbBlock objects
    ret,        \* what the last call or request returned to its caller
    rows,       \* the rows of table farmer_data in herbs.db, oldest first
    pc,         \* per request thread: the line of add_block it stands before
    frame,      \* per request thread: the locals of its add_block call
    tampered,   \* which stored block was overwritten in place, if any
    blocks      \* HerbBlock objects constructed outside any chain

vars == <<chain, ret, rows, pc, frame, tampered, blocks>>

(***************************************************************************)
(* Bounds of the model.                                                    *)
(***************************************************************************)
MaxChain == 3

(***************************************************************************)
(* Text.                                                                   *)
(***************************************************************************)
Ch(c) == [c |-> c, pre |-> <<>>, from |-> 0, to |-> 0]

L(cs) == [i \in 1..Len(cs) |-> Ch(cs[i])]

DigestLen == 64

ShortIdLen == 8

TokLen(t) == IF t.c = "#" THEN t.to - t.from + 1 ELSE 1

RECURSIVE StrLen(_)
StrLen(s) == IF s = <<>> THEN 0 ELSE TokLen(Head(s)) + StrLen(Tail(s))

\* s[:n]
RECURSIVE Slice(_, _)
Slice(s, n) ==
    IF n <= 0 \/ s = <<>> THEN <<>>
    ELSE LET t == Head(s) IN
         IF TokLen(t) <= n THEN <<t>> \o Slice(Tail(s), n - TokLen(t))
         ELSE <<[t EXCEPT !.to = t.from + n - 1]>>

\* hashlib.sha256(s.encode()).hexdigest()
Sha256Hex(s) == <<[c |-> "#", pre |-> s, from |-> 1, to |-> DigestLen]>>

Digit(d) == Ch(<<"0","1","2","3","4","5","6","7","8","9">>[d + 1])

\* str(n) / f"{n}" for an int n >= 0
RECURSIVE IntStr(_)
IntStr(n) == IF n < 10 THEN <<Digit(n)>> ELSE IntStr(n \div 10) \o <<Digit(n % 10)>>

\* "%0wd" % n
RECURSIVE Pad(_, _)
Pad(n, w) == IF w = 0 THEN <<>> ELSE Pad(n \div 10, w - 1) \o <<Digit(n % 10)>>

\* datetime.isoformat(): YYYY-MM-DDTHH:MM:SS, and .ffffff when microsecond != 0
isoformat(dt) ==
    Pad(dt.year, 4) \o L(<<"-">>) \o Pad(dt.month, 2) \o L(<<"-">>) \o Pad(dt.day, 2) \o L(<<"T">>)
    \o Pad(dt.hour, 2) \o L(<<":">>) \o Pad(dt.minute, 2) \o L(<<":">>) \o Pad(dt.second, 2)
    \o (IF dt.microsecond = 0 THEN <<>> ELSE L(<<".">>) \o Pad(dt.microsecond, 6))

DateTime(y, mo, d, h, mi, s, us) ==
    [year |-> y, month |-> mo, day |-> d, hour |-> h, minute |-> mi, second |-> s,
     microsecond |-> us]

\* The readings datetime.datetime.now() can give; it need not advance between two calls.
Clock == {DateTime(2026, 11, 5, 8, 10, 0, 0), DateTime(2026, 11, 5, 8, 10, 0, 250000)}

(***************************************************************************)
(* Payloads.  A dict is the sequence of its items in insertion order.  A   *)
(* value is a str, a float (held as its repr), a list holding one str, or  *)
(* a set, which json cannot encode.                                        *)
(***************************************************************************)
PyStr(s) == [t |-> "str", s |-> s]

PyFloat(r) == [t |-> "float", s |-> r]

PyList(s) == [t |-> "list", s |-> s]

PySet == [t |-> "set", s |-> <<>>]

Item(k, v) == [k |-> k, v |-> v]

Quote == Ch("\"")

Backslash == Ch("\\")

\* json's string encoder: the quote and the backslash are escaped
RECURSIVE Escape(_)
Escape(s) ==
    IF s = <<>> THEN <<>>
    ELSE (IF Head(s) \in {Quote, Backslash} THEN <<Backslash, Head(s)>> ELSE <<Head(s)>>)
         \o Escape(Tail(s))

JsonStr(s) == <<Quote>> \o Escape(s) \o <<Quote>>

\* json.dumps raises TypeError on a value it has no encoding for
Serializable(data) == \A i \in 1..Len(data) : data[i].v.t # "set"

JsonValue(v) ==
    CASE v.t = "str" -> JsonStr(v.s)
      [] v.t = "float" -> v.s
      [] v.t = "list" -> L(<<"[">>) \o JsonStr(v.s) \o L(<<"]">>)

RECURSIVE JsonItems(_)
JsonItems(data) ==
    IF data = <<>> THEN <<>>
    ELSE JsonStr(Head(data).k) \o L(<<":"," ">>) \o JsonValue(Head(data).v)
         \o (IF Tail(data) = <<>> THEN <<>> ELSE L(<<","," ">>) \o JsonItems(Tail(data)))

\* json.dumps(data) of a dict: items in insertion order, no sort_keys
dumps(data) == L(<<"{">>) \o JsonItems(data) \o L(<<"}">>)

(***************************************************************************)
(* HerbBlock.                                                              *)
(***************************************************************************)
block_string(self) ==
    IntStr(self.index) \o self.timestamp \o dumps(self.data) \o self.previous_hash

calculate_hash(self) == Sha256Hex(block_string(self))

\* HerbBlock mutated: the hash is computed before previous_hash is assigned, while
\* it still is the default ''
HerbBlock_hash_before_link(index, timestamp, data, previous_hash) ==
    LET self == [index |-> index, timestamp |-> timestamp, data |-> data,
                 previous_hash |-> <<>>, hash |-> <<>>]
    IN  [self EXCEPT !.hash = calculate_hash(self), !.previous_hash = previous_hash]

\* HerbBlock(index, timestamp, data, previous_hash); raises when data is not Serializable
HerbBlock(index, timestamp, data, previous_hash) ==
    LET self == [index |-> index, timestamp |-> timestamp, data |-> data,
                 previous_hash |-> previous_hash, hash |-> <<>>]
    IN  [self EXCEPT !.hash = calculate_hash(self)]

(***************************************************************************)
(* HerbBlockchain.                                                         *)
(***************************************************************************)
GenesisData == <<Item(L(<<"m","e","s","s","a","g","e">>), PyStr(L(<<"G","e","n","e","s","i","s"," ","B","l","o","c","k"," ","f","o","r"," ","H","e","r","b"," ","A","u","t","h","e","n","t","i","c","a","t","i","o","n">>)))>>

create_genesis_block(now) == HerbBlock(0, isoformat(now), GenesisData, L(<<"0">>))

get_latest_block(c) == c[Len(c)]

\* is_chain_valid mutated: the stored hash is never recomputed
RECURSIVE ValidFrom_links_only(_, _)
ValidFrom_links_only(c, i) ==
    IF i > Len(c) THEN TRUE
    ELSE IF c[i].previous_hash # c[i - 1].hash THEN FALSE
    ELSE ValidFrom_links_only(c, i + 1)

\* is_chain_valid mutated: the link to the previous block is never compared
RECURSIVE ValidFrom_hash_only(_, _)
ValidFrom_hash_only(c, i) ==
    IF i > Len(c) THEN TRUE
    ELSE IF c[i].hash # calculate_hash(c[i]) THEN FALSE
    ELSE ValidFrom_hash_only(c, i + 1)

\* the loop of is_chain_valid from position i on (positions are 1-based here)
RECURSIVE ValidFrom(_, _)
ValidFrom(c, i) ==
    IF i > Len(c) THEN TRUE
    ELSE IF c[i].hash # calculate_hash(c[i]) THEN FALSE
    ELSE IF c[i].previous_hash # c[i - 1].hash THEN FALSE
    ELSE ValidFrom(c, i + 1)

is_chain_valid(c) == ValidFrom(c, 2)

\* add_block mutated: the new block takes the tail's own index, len(self.chain) - 1
add_block_tail_index(c, herb_data, now) ==
    IF ~Serializable(herb_data) THEN [chain |-> c, raised |-> "TypeError", value |-> <<>>]
    ELSE LET new_block == HerbBlock(Len(c) - 1, isoformat(now), herb_data,
                                    get_latest_block(c).hash)
         IN  [chain |-> Append(c, new_block), raised |-> "", value |-> new_block]

\* add_block mutated: every block links to the genesis block, self.chain[0].hash
add_block_links_genesis(c, herb_data, now) ==
    IF ~Serializable(herb_data) THEN [chain |-> c, raised |-> "TypeError", value |-> <<>>]
    ELSE LET new_block == HerbBlock(Len(c), isoformat(now), herb_data, c[1].hash)
         IN  [chain |-> Append(c, new_block), raised |-> "", value |-> new_block]

\* add_block mutated: the block is appended before its hash is computed
add_block_append_first(c, herb_data, now) ==
    LET previous_block == get_latest_block(c)
        unhashed == [index |-> Len(c), timestamp |-> isoformat(now), data |-> herb_data,
                     previous_hash |-> previous_block.hash, hash |-> <<>>]
    IN  IF ~Serializable(herb_data)
        THEN [chain |-> Append(c, unhashed), raised |-> "TypeError", value |-> <<>>]
        ELSE LET new_block == HerbBlock(Len(c), isoformat(now), herb_data,
                                        previous_block.hash)
             IN  [chain |-> Append(c, new_block), raised |-> "", value |-> new_block]

\* add_block run by one caller from entry to return: the chain after it, the
\* exception that left it (if any) and the block returned
add_block(c, herb_data, now) ==
    LET previous_block == get_latest_block(c) IN
    IF ~Serializable(herb_data)
    THEN [chain |-> c, raised |-> "TypeError", value |-> <<>>]
    ELSE LET new_block == HerbBlock(Len(c), isoformat(now), herb_data,
                                    previous_block.hash)
         IN  [chain |-> Append(c, new_block), raised |-> "", value |-> new_block]

\* the position of the first block whose hash is block_hash, 0 when there is none
RECURSIVE FirstWithHash(_, _, _)
FirstWithHash(c, block_hash, i) ==
    IF i > Len(c) THEN 0
    ELSE IF c[i].hash = block_hash THEN i
    ELSE FirstWithHash(c, block_hash, i + 1)

NotFound == [verified |-> FALSE, message |-> "Block not found"]

Found(c, block) ==
    [verified |-> TRUE, herb_data |-> block.data, block_index |-> block.index,
     timestamp |-> block.timestamp, is_authentic |-> is_chain_valid(c)]

\* verify_herb mutated: a block is matched by block.hash.startswith(block_hash)
RECURSIVE FirstWithPrefix(_, _, _)
FirstWithPrefix(c, block_hash, i) ==
    IF i > Len(c) THEN 0
    ELSE IF Slice(c[i].hash, StrLen(block_hash)) = block_hash THEN i
    ELSE FirstWithPrefix(c, block_hash, i + 1)

verify_herb_prefix_match(c, block_hash) ==
    LET i == FirstWithPrefix(c, block_hash, 1)
    IN  IF i = 0 THEN NotFound ELSE Found(c, c[i])

\* the JSON body verify_herb answers with
verify_herb(c, block_hash) ==
    LET i == FirstWithHash(c, block_hash, 1)
    IN  IF i = 0 THEN NotFound ELSE Found(c, c[i])

blockchain_status(c) ==
    [total_blocks |-> Len(c), is_valid |-> is_chain_valid(c),
     latest_hash |-> get_latest_block(c).hash]

(***************************************************************************)
(* Inputs.                                                                 *)
(***************************************************************************)
HerbCost == <<Item(L(<<"h","e","r","b","_","t","y","p","e">>), PyStr(L(<<"T","u","l","s","i">>))), Item(L(<<"c","o","s","t","_","p","e","r","_","k","g">>), PyFloat(L(<<"1","0",".","0">>)))>>

CostHerb == <<Item(L(<<"c","o","s","t","_","p","e","r","_","k","g">>), PyFloat(L(<<"1","0",".","0">>))), Item(L(<<"h","e","r","b","_","t","y","p","e">>), PyStr(L(<<"T","u","l","s","i">>)))>>

HerbOnly == <<Item(L(<<"h","e","r","b","_","t","y","p","e">>), PyStr(L(<<"N","e","e","m">>)))>>

HerbSet == <<Item(L(<<"h","e","r","b","_","t","y","p","e">>), PySet)>>

Payloads == {HerbCost, CostHerb, HerbOnly, HerbSet}

GoodPayloads == {d \in Payloads : Serializable(d)}

Hashes(c) == {c[i].hash : i \in 1..Len(c)}

\* what a client may put in /api/verify/<block_hash>
Queries(c) ==
    Hashes(c) \cup {Slice(h, ShortIdLen) : h \in Hashes(c)}
    \cup {L(<<"0">>), <<>>, Sha256Hex(L(<<"0">>))}

Call(op, args, raised, value) == [op |-> op, args |-> args, raised |-> raised, value |-> value]

NoFrame == [herb_data |-> <<>>, previous_block |-> <<>>, index |-> 0, timestamp |-> <<>>,
            new_block |-> <<>>]

Threads == {"t1", "t2"}

NoTamper == [kind |-> "none", pos |-> 0, field |-> ""]

(***************************************************************************)
(* The chain driven by one caller at a time.                               *)
(***************************************************************************)
Init ==
    /\ \E now \in Clock : chain = <<create_genesis_block(now)>>
    /\ ret = Call("HerbBlockchain", <<>>, "", <<>>)
    /\ rows = <<>>
    /\ pc = [t \in Threads |-> "idle"]
    /\ frame = [t \in Threads |-> NoFrame]
    /\ tampered = NoTamper
    /\ blocks = <<>>

AddBlock ==
    /\ Len(chain) < MaxChain
    /\ tampered = NoTamper
    /\ \E herb_data \in Payloads, now \in Clock :
         LET r == add_block(chain, herb_data, now) IN
         /\ chain' = r.chain
         /\ ret' = Call("add_block", herb_data, r.raised, r.value)
    /\ UNCHANGED <<rows, pc, frame, tampered, blocks>>

IsChainValid ==
    /\ ret' = Call("is_chain_valid", <<>>, "", is_chain_valid(chain))
    /\ UNCHANGED <<chain, rows, pc, frame, tampered, blocks>>

VerifyHerb ==
    /\ \E block_hash \in Queries(chain) :
         ret' = Call("verify_herb", block_hash, "", verify_herb(chain, block_hash))
    /\ UNCHANGED <<chain, rows, pc, frame, tampered, blocks>>

BlockchainStatus ==
    /\ ret' = Call("blockchain_status", <<>>, "", blockchain_status(chain))
    /\ UNCHANGED <<chain, rows, pc, frame, tampered, blocks>>

Next == AddBlock \/ IsChainValid \/ VerifyHerb \/ BlockchainStatus

Spec == Init /\ [][Next]_vars

(***************************************************************************)
(* A stored block overwritten in place (HerbBlock attributes are plain     *)
(* mutable attributes), once, on a chain built by add_block alone.         *)
(***************************************************************************)
Indices == (0..MaxChain) \cup {10, 11}

FieldValues(c, field) ==
    CASE field = "data" -> GoodPayloads \cup {GenesisData}
      [] field = "previous_hash" -> Hashes(c) \cup {L(<<"0">>), <<>>}
      [] field = "index" -> Indices
      [] field = "timestamp" -> {isoformat(t) : t \in Clock} \cup {<<>>}

Fields == {"data", "previous_hash", "index", "timestamp"}

\* block.<field> = value
SetField(block, field, value) == [block EXCEPT ![field] = value]

\* block.hash = block.calculate_hash()
Resign(block) == [block EXCEPT !.hash = calculate_hash(block)]

TamperStale ==
    /\ tampered = NoTamper
    /\ \E i \in 2..Len(chain), field \in Fields :
         \E value \in FieldValues(chain, field) \ {chain[i][field]} :
           /\ chain' = [chain EXCEPT ![i] = SetField(@, field, value)]
           /\ tampered' = [kind |-> "stale", pos |-> i, field |-> field]
           /\ ret' = Call("setattr", <<>>, "", <<>>)
    /\ UNCHANGED <<rows, pc, frame, blocks>>

TamperResigned ==
    /\ tampered = NoTamper
    /\ \E i \in 2..(Len(chain) - 1), field \in Fields :
         \E value \in FieldValues(chain, field) \ {chain[i][field]} :
           /\ chain' = [chain EXCEPT ![i] = Resign(SetField(@, field, value))]
           /\ tampered' = [kind |-> "resigned", pos |-> i, field |-> field]
           /\ ret' = Call("setattr", <<>>, "", <<>>)
    /\ UNCHANGED <<rows, pc, frame, blocks>>

NextTamper == AddBlock \/ TamperStale \/ TamperResigned \/ IsChainValid

SpecTamper == Init /\ [][NextTamper]_vars

(***************************************************************************)
(* Properties of the chain driven by one caller at a time.                 *)
(***************************************************************************)
Linked(c) ==
    \A i \in 2..Len(c) :
        /\ c[i].previous_hash = c[i - 1].hash
        /\ c[i].hash = calculate_hash(c[i])

\* C1 (chain-of-custody): on every chain built by the constructor and add_block
\* calls of a single caller, is_chain_valid returns True: every block after the
\* genesis block stores the hash of the block before it as previous_hash, and its
\* stored hash is the hash recomputed from its stored fields.
C1_ChainOfCustody == is_chain_valid(chain) /\ Linked(chain)

C1_Witness ==
    /\ Len(chain) = MaxChain
    /\ ret.op = "is_chain_valid" /\ ret.value = TRUE
    /\ chain[2].data # chain[3].data

\* C4 (append postcondition): a successful add_block(p) on a chain of length n keeps
\* blocks 0..n-1 as they were, makes the length n+1, and the new tail has index n,
\* data p and the old tail's hash as previous_hash; it is the block returned.
C4_AppendPostcondition ==
    [][(ret'.op = "add_block" /\ ret'.raised = "") =>
          /\ Len(chain') = Len(chain) + 1
          /\ SubSeq(chain', 1, Len(chain)) = chain
          /\ chain'[Len(chain')].index = Len(chain)
          /\ chain'[Len(chain')].data = ret'.args
          /\ chain'[Len(chain')].previous_hash = chain[Len(chain)].hash
          /\ ret'.value = chain'[Len(chain')]]_vars

C4_Witness ==
    /\ ret.op = "add_block" /\ ret.raised = ""
    /\ Len(chain) = MaxChain
    /\ ret.value = chain[MaxChain]
    /\ ret.value.previous_hash = chain[MaxChain - 1].hash

\* C5 (lookup correctness): verify_herb(b.hash) finds every block b of the chain,
\* the genesis block included, and reports b's own data, index and timestamp; a
\* query that is the hash of no block of the chain, such as the 8-character short
\* id of a block, is answered verified: False.
C5_LookupCorrectness ==
    /\ \A i \in 1..Len(chain) :
          LET r == verify_herb(chain, chain[i].hash) IN
          /\ r.verified
          /\ r.herb_data = chain[i].data
          /\ r.block_index = chain[i].index
          /\ r.timestamp = chain[i].timestamp
    /\ \A x \in Queries(chain) \ Hashes(chain) : ~verify_herb(chain, x).verified
    /\ ret.op = "verify_herb" =>
          (ret.value.verified <=> ret.args \in Hashes(chain))

C5_Witness ==
    /\ Len(chain) = MaxChain
    /\ ret.op = "verify_herb"
    /\ ret.args = Slice(chain[2].hash, ShortIdLen)
    /\ ~ret.value.verified
    /\ verify_herb(chain, chain[3].hash).block_index = 2

IsGenesis(block) ==
    /\ block.index = 0
    /\ block.previous_hash = L(<<"0">>)
    /\ block.data = GenesisData

\* C6 (structural invariant): whatever add_block, is_chain_valid, lookup and status
\* calls are made, the chain is never empty, the block at position i has index i,
\* and position 0 holds the genesis block made by the constructor (index 0,
\* previous_hash "0", the sentinel payload), which no call replaces.
C6_Structure ==
    /\ [](/\ Len(chain) >= 1
          /\ \A i \in 1..Len(chain) : chain[i].index = i - 1
          /\ IsGenesis(chain[1]))
    /\ [][chain'[1] = chain[1]]_vars

C6_Witness ==
    /\ Len(chain) = MaxChain
    /\ chain[MaxChain].index = MaxChain - 1
    /\ ret.op = "blockchain_status" /\ ret.value.total_blocks = MaxChain

\* C8 (append atomicity on error): an add_block whose payload cannot be serialized
\* raises with the chain as it was (same length, same blocks, same is_chain_valid),
\* and the next successful add_block links to that unchanged tail with the
\* unchanged length as index.
C8_AppendAtomic ==
    /\ [][(ret'.op = "add_block" /\ ret'.raised # "") =>
            /\ chain' = chain
            /\ is_chain_valid(chain') = is_chain_valid(chain)]_vars
    /\ [][(ret.op = "add_block" /\ ret.raised # ""
           /\ ret'.op = "add_block" /\ ret'.raised = "") =>
            /\ chain'[Len(chain')].previous_hash = chain[Len(chain)].hash
            /\ chain'[Len(chain')].index = Len(chain)
            /\ Len(chain') = Len(chain) + 1]_vars

C8_Witness ==
    /\ ret.op = "add_block" /\ ret.raised = "TypeError" /\ ret.args = HerbSet
    /\ Len(chain) = 2

(***************************************************************************)
(* Properties of a chain with one block overwritten in place.              *)
(***************************************************************************)
\* C2 (tamper detection, stale hash): on a chain built by add_block, giving the
\* data, the previous_hash or the index of one non-genesis block a different value
\* while its stored hash stays makes is_chain_valid return False.
C2_StaleHashDetected ==
    (tampered.kind = "stale" /\ tampered.field \in {"data", "previous_hash", "index"})
        => ~is_chain_valid(chain)

C2_Witness ==
    /\ tampered = [kind |-> "stale", pos |-> 2, field |-> "index"]
    /\ chain[2].index = 11
    /\ Len(chain) = MaxChain
    /\ ret.op = "is_chain_valid" /\ ret.value = FALSE

\* C3 (tamper detection, re-signed block): on a chain built by add_block, changing
\* a field of a non-genesis block that has a successor and storing the hash
\* recomputed from the new fields in it, with the successor's previous_hash left
\* as it was, makes is_chain_valid return False.
C3_ResignedDetected == tampered.kind = "resigned" => ~is_chain_valid(chain)

C3_Witness ==
    /\ tampered = [kind |-> "resigned", pos |-> 2, field |-> "data"]
    /\ chain[2].hash = calculate_hash(chain[2])
    /\ chain[2].previous_hash = chain[1].hash
    /\ chain[3].previous_hash # chain[2].hash
    /\ ret.op = "is_chain_valid" /\ ret.value = FALSE

(***************************************************************************)
(* add_block run by the request threads of the threaded server app.run     *)
(* starts: each thread takes the lines of add_block one at a time, and     *)
(* nothing in the code keeps another thread from running between them.     *)
(***************************************************************************)
InFlight == {t \in Threads : pc[t] # "idle"}

Enter(t) ==
    /\ pc[t] = "idle"
    /\ Len(chain) + Cardinality(InFlight) < MaxChain
    /\ \E herb_data \in Payloads :
         frame' = [frame EXCEPT ![t] = [NoFrame EXCEPT !.herb_data = herb_data]]
    /\ pc' = [pc EXCEPT ![t] = "39"]
    /\ UNCHANGED <<chain, ret, rows, tampered, blocks>>

\* previous_block = self.get_latest_block()
Line39(t) ==
    /\ pc[t] = "39"
    /\ frame' = [frame EXCEPT ![t].previous_block = get_latest_block(chain)]
    /\ pc' = [pc EXCEPT ![t] = "41"]
    /\ UNCHANGED <<chain, ret, rows, tampered, blocks>>

\* len(self.chain)
Line41(t) ==
    /\ pc[t] = "41"
    /\ frame' = [frame EXCEPT ![t].index = Len(chain)]
    /\ pc' = [pc EXCEPT ![t] = "42"]
    /\ UNCHANGED <<chain, ret, rows, tampered, blocks>>

\* datetime.datetime.now().isoformat()
Line42(t) ==
    /\ pc[t] = "42"
    /\ \E now \in Clock : frame' = [frame EXCEPT ![t].timestamp = isoformat(now)]
    /\ pc' = [pc EXCEPT ![t] = "40"]
    /\ UNCHANGED <<chain, ret, rows, tampered, blocks>>

\* new_block = HerbBlock(..., previous_block.hash)
Line40(t) ==
    /\ pc[t] = "40"
    /\ IF Serializable(frame[t].herb_data)
       THEN /\ frame' = [frame EXCEPT ![t].new_block =
                            HerbBlock(frame[t].index, frame[t].timestamp,
                                      frame[t].herb_data, frame[t].previous_block.hash)]
            /\ pc' = [pc EXCEPT ![t] = "46"]
            /\ UNCHANGED ret
       ELSE /\ frame' = [frame EXCEPT ![t] = NoFrame]
            /\ pc' = [pc EXCEPT ![t] = "idle"]
            /\ ret' = Call("add_block", frame[t].herb_data, "TypeError", <<>>)
    /\ UNCHANGED <<chain, rows, tampered, blocks>>

\* self.chain.append(new_block); return new_block
Line46(t) ==
    /\ pc[t] = "46"
    /\ chain' = Append(chain, frame[t].new_block)
    /\ ret' = Call("add_block", frame[t].herb_data, "", frame[t].new_block)
    /\ frame' = [frame EXCEPT ![t] = NoFrame]
    /\ pc' = [pc EXCEPT ![t] = "idle"]
    /\ UNCHANGED <<rows, tampered, blocks>>

NextThreads ==
    \E t \in Threads :
        Enter(t) \/ Line39(t) \/ Line41(t) \/ Line42(t) \/ Line40(t) \/ Line46(t)

SpecThreads == Init /\ [][NextThreads]_vars

\* C7 (serialized mutation): under any interleaving of concurrent add_block calls
\* every appended block stores the hash of the block right before it and has its
\* position as index, no two blocks share a previous_hash or an index, and
\* is_chain_valid stays True.
C7_SerializedAppends ==
    /\ \A i \in 2..Len(chain) :
          /\ chain[i].previous_hash = chain[i - 1].hash
          /\ chain[i].index = i - 1
    /\ \A i, j \in 1..Len(chain) :
          i # j => /\ chain[i].previous_hash # chain[j].previous_hash
                   /\ chain[i].index # chain[j].index
    /\ is_chain_valid(chain)

(***************************************************************************)
(* HerbBlock objects constructed from free inputs.                         *)
(***************************************************************************)
MaxBlocks == 2

NewHerbBlock ==
    /\ Len(blocks) < MaxBlocks
    /\ \E index \in 0..MaxChain, now \in Clock, data \in Payloads,
          previous_hash \in {L(<<"0">>), chain[1].hash} :
         IF Serializable(data)
         THEN /\ blocks' = Append(blocks, HerbBlock(index, isoformat(now), data,
                                                    previous_hash))
              /\ ret' = Call("HerbBlock", data, "", blocks'[Len(blocks')].hash)
         ELSE /\ ret' = Call("HerbBlock", data, "TypeError", <<>>)
              /\ UNCHANGED blocks
    /\ UNCHANGED <<chain, rows, pc, frame, tampered>>

NextBlocks == NewHerbBlock

SpecBlocks == Init /\ [][NextBlocks]_vars

\* the key-to-value mapping of a dict, its insertion order forgotten
Mapping(data) == {data[i] : i \in 1..Len(data)}

\* C9 (canonical payload serialization): two HerbBlocks built from the same index,
\* timestamp and previous_hash and from payloads that hold the same key-to-value
\* mapping, in whatever key order, have the same hash.
C9_CanonicalPayload ==
    \A i, j \in 1..Len(blocks) :
        (/\ blocks[i].index = blocks[j].index
         /\ blocks[i].timestamp = blocks[j].timestamp
         /\ blocks[i].previous_hash = blocks[j].previous_hash
         /\ Mapping(blocks[i].data) = Mapping(blocks[j].data))
        => blocks[i].hash = blocks[j].hash

(***************************************************************************)
(* The Flask handlers, one request at a time.                              *)
(***************************************************************************)
\* the position of key in dict data, 0 when data[key] raises KeyError
RECURSIVE KeyPos(_, _, _)
KeyPos(data, key, i) ==
    IF i > Len(data) THEN 0
    ELSE IF data[i].k = key THEN i
    ELSE KeyPos(data, key, i + 1)

HasKey(data, key) == KeyPos(data, key, 1) # 0

Get(data, key) == data[KeyPos(data, key, 1)].v

IsDigits(s) == s # <<>> /\ \A i \in 1..Len(s) : \E d \in 0..9 : s[i] = Digit(d)

\* the exception float(v) raises, "" when it returns
FloatRaises(v) ==
    CASE v.t = "float" -> ""
      [] v.t = "str" -> IF IsDigits(v.s) THEN "" ELSE "ValueError"
      [] OTHER -> "TypeError"

\* float(v) for a float, or for a str of decimal digits with no leading zero
Float(v) == IF v.t = "float" THEN v ELSE PyFloat(v.s \o L(<<".","0">>))

RequiredKeys == <<L(<<"f","a","r","m","e","r","_","n","a","m","e">>), L(<<"h","e","r","b","_","t","y","p","e">>), L(<<"l","o","c","a","t","i","o","n">>), L(<<"s","e","a","s","o","n">>), L(<<"c","o","s","t","_","p","e","r","_","k","g">>)>>

\* the first of the five keys the request body lacks, 0 when it has them all
RECURSIVE FirstMissing(_, _)
FirstMissing(data, i) ==
    IF i > Len(RequiredKeys) THEN 0
    ELSE IF ~HasKey(data, RequiredKeys[i]) THEN i
    ELSE FirstMissing(data, i + 1)

\* sqlite3 binds str and float parameters; any other type raises on execute
Bindable(v) == v.t \in {"str", "float"}

Failure(c, rws, error) ==
    [chain |-> c, rows |-> rws, response |-> [success |-> FALSE, error |-> error]]

\* submit_herb_data on request body data: the chain and the table after it and the
\* JSON body answered.  now1 and now2 are the clock readings of lines 119 and 42;
\* qr_ok and db_ok tell whether the qrcode library and the database did their part.
submit_herb_data(c, rws, data, now1, now2, qr_ok, db_ok) ==
    IF FirstMissing(data, 1) # 0 THEN Failure(c, rws, "KeyError")
    ELSE IF FloatRaises(Get(data, L(<<"c","o","s","t","_","p","e","r","_","k","g">>))) # ""
    THEN Failure(c, rws, FloatRaises(Get(data, L(<<"c","o","s","t","_","p","e","r","_","k","g">>))))
    ELSE
    LET herb_data ==
            <<Item(L(<<"f","a","r","m","e","r","_","n","a","m","e">>), Get(data, L(<<"f","a","r","m","e","r","_","n","a","m","e">>))),
              Item(L(<<"h","e","r","b","_","t","y","p","e">>), Get(data, L(<<"h","e","r","b","_","t","y","p","e">>))),
              Item(L(<<"l","o","c","a","t","i","o","n">>), Get(data, L(<<"l","o","c","a","t","i","o","n">>))),
              Item(L(<<"s","e","a","s","o","n">>), Get(data, L(<<"s","e","a","s","o","n">>))),
              Item(L(<<"c","o","s","t","_","p","e","r","_","k","g">>), Float(Get(data, L(<<"c","o","s","t","_","p","e","r","_","k","g">>)))),
              Item(L(<<"s","u","b","m","i","s","s","i","o","n","_","t","i","m","e">>), PyStr(isoformat(now1)))>>
        added == add_block(c, herb_data, now2)
        new_block == added.value
        qr_data ==
            <<Item(L(<<"b","l","o","c","k","_","h","a","s","h">>), PyStr(new_block.hash)),
              Item(L(<<"h","e","r","b","_","i","n","f","o">>), Get(herb_data, L(<<"h","e","r","b","_","t","y","p","e">>))),
              Item(L(<<"f","a","r","m","e","r">>), Get(herb_data, L(<<"f","a","r","m","e","r","_","n","a","m","e">>))),
              Item(L(<<"v","e","r","i","f","y","_","u","r","l">>),
                   PyStr(L(<<"h","t","t","p","s",":","/","/","y","o","u","r","-","a","p","p",".","r","e","p","l","i","t",".","d","e","v","/","v","e","r","i","f","y","/">>) \o new_block.hash))>>
        qr_code_img == [png |-> dumps(qr_data)]
        row == [farmer_name |-> Get(herb_data, L(<<"f","a","r","m","e","r","_","n","a","m","e">>)),
                herb_type |-> Get(herb_data, L(<<"h","e","r","b","_","t","y","p","e">>)),
                location |-> Get(herb_data, L(<<"l","o","c","a","t","i","o","n">>)),
                season |-> Get(herb_data, L(<<"s","e","a","s","o","n">>)),
                cost_per_kg |-> Get(herb_data, L(<<"c","o","s","t","_","p","e","r","_","k","g">>)),
                block_hash |-> new_block.hash,
                qr_code |-> qr_code_img,
                timestamp |-> Get(herb_data, L(<<"s","u","b","m","i","s","s","i","o","n","_","t","i","m","e">>))]
    IN  IF added.raised # "" THEN Failure(added.chain, rws, added.raised)
        ELSE IF ~qr_ok THEN Failure(added.chain, rws, "DataOverflowError")
        ELSE IF \E f \in {"farmer_name", "herb_type", "location", "season"} :
                    ~Bindable(row[f])
        THEN Failure(added.chain, rws, "sqlite3.InterfaceError")
        ELSE IF ~db_ok THEN Failure(added.chain, rws, "sqlite3.OperationalError")
        ELSE [chain |-> added.chain, rows |-> Append(rws, row),
              response |-> [success |-> TRUE,
                            message |-> "Herb data successfully recorded on blockchain!",
                            block_hash |-> new_block.hash,
                            qr_code |-> qr_code_img,
                            unique_id |-> Slice(new_block.hash, ShortIdLen)]]

FullRequest ==
    <<Item(L(<<"f","a","r","m","e","r","_","n","a","m","e">>), PyStr(L(<<"A","s","h","a">>))), Item(L(<<"h","e","r","b","_","t","y","p","e">>), PyStr(L(<<"T","u","l","s","i">>))),
      Item(L(<<"l","o","c","a","t","i","o","n">>), PyStr(L(<<"P","u","n","e">>))), Item(L(<<"s","e","a","s","o","n">>), PyStr(L(<<"R","a","b","i">>))),
      Item(L(<<"c","o","s","t","_","p","e","r","_","k","g">>), PyStr(L(<<"1","0">>)))>>

NoSeason == SubSeq(FullRequest, 1, 3) \o SubSeq(FullRequest, 5, 5)

WordCost == [FullRequest EXCEPT ![5] = Item(L(<<"c","o","s","t","_","p","e","r","_","k","g">>), PyStr(L(<<"t","e","n">>)))]

ListName == [FullRequest EXCEPT ![1] = Item(L(<<"f","a","r","m","e","r","_","n","a","m","e">>), PyList(L(<<"A","s","h","a">>)))]

Requests == {FullRequest, NoSeason, WordCost, ListName}

SubmitHerbData ==
    /\ Len(chain) < MaxChain
    /\ \E data \in Requests, now1 \in Clock, now2 \in Clock, qr_ok \in BOOLEAN,
          db_ok \in BOOLEAN :
         LET r == submit_herb_data(chain, rows, data, now1, now2, qr_ok, db_ok) IN
         /\ chain' = r.chain
         /\ rows' = r.rows
         /\ ret' = Call("submit_herb_data", data, "", r.response)
    /\ UNCHANGED <<pc, frame, tampered, blocks>>

NextWeb == SubmitHerbData \/ VerifyHerb \/ BlockchainStatus

SpecWeb == Init /\ [][NextWeb]_vars

\* C10 (submission all-or-nothing): a submit_herb_data request adds a block to the
\* chain exactly when it answers success: True; when it answers success: False the
\* chain is as it was before the request, so that every block after the genesis
\* block has one farmer_data row.
C10_SubmitAllOrNothing ==
    /\ [][ret'.op = "submit_herb_data" =>
            /\ (Len(chain') = Len(chain) + 1) <=> ret'.value.success
            /\ ~ret'.value.success => chain' = chain]_vars
    /\ [](Len(rows) = Len(chain) - 1)
====
